---- MODULE Spec2Model ----
(***************************************************************************)
(* agent_vault: provider resolution and secret orchestration.              *)
(*                                                                         *)
(* The manifest file, the OS keyring and the result of the last call are   *)
(* the state.  resolve_provider, the keyring functions of vault.py,        *)
(* load_manifest and the service methods that read or write secrets are    *)
(* operators computed as the code computes them; each call is an action.   *)
(* The manifest file is followed a second time as the text on disk, with   *)
(* callers that run init_manifest, save_manifest and load_manifest one     *)
(* system call at a time, and the keyring a second time with a backend     *)
(* that may raise.                                                         *)
(***************************************************************************)
EXTENDS Integers, Sequences, FiniteSets

VARIABLES
    manifest_file,  \* the JSON document at MANIFEST_PATH (or no file)
    keyring,        \* the OS keyring: <<service, key>> -> password or None
    result,         \* the last call: its name, its arguments, what it returned or raised
    history,        \* per provider: the last secret call made on it (ghost)
    disk,           \* the file at MANIFEST_PATH as text: whether it exists, its tokens
    proc,           \* per caller: the manifest call it is in and how far it has got
    backend         \* how the keyring backend answers the next call: "ok" or a failure

vars == <<manifest_file, keyring, result, history, disk, proc, backend>>

----------------------------------------------------------------------------
(* Python values *)

\* A call: the function or method, its arguments, and its outcome.  The
\* outcome is what the call returns (kind "ok") or the exception it raises.
\* Two calls are compared by op first, then args, then kind, then value, so
\* values of different Python types are never compared.
Call(op, args, out) == [op |-> op, args |-> args, out |-> out]
Ok(v) == [kind |-> "ok", value |-> v]
Raise(exc, msg) == [kind |-> exc, value |-> msg]

\* Optional[T]: None is the empty tuple, a value x is <<x>>.
None == <<>>
Some(x) == <<x>>

\* `if x:` on a str | None : None and "" are falsy.
Truthy(opt) == opt # None /\ opt[1] # ""

\* `if not secret:` on a password (a str | None kept as its characters).
SecretTruthy(opt) == opt # None /\ Len(opt[1]) > 0

\* str < str (code-point order) on the names the model uses.
NamePool == <<"alpha", "beta", "gamma">>
NameIndex(n) == CHOOSE i \in 1..Len(NamePool) : NamePool[i] = n
StrLt(a, b) == NameIndex(a) < NameIndex(b)

\* sorted(s, key=...): ascending and stable.  lt[i, j] says that the key of
\* s[i] is less than the key of s[j].
Sorted(s, lt) ==
    LET n == Len(s)
        pos(i) == 1 + Cardinality({j \in 1..n : lt[j, i] \/ (~lt[i, j] /\ j < i)})
    IN  [k \in 1..n |-> s[CHOOSE i \in 1..n : pos(i) = k]]

\* A secret is a str; the model keeps it as its sequence of characters so
\* that str.strip() is computed.
Whitespace == {" "}
RECURSIVE LStrip(_)
LStrip(s) == IF s # <<>> /\ Head(s) \in Whitespace THEN LStrip(Tail(s)) ELSE s
RECURSIVE RStrip(_)
RStrip(s) ==
    IF s # <<>> /\ s[Len(s)] \in Whitespace THEN RStrip(SubSeq(s, 1, Len(s) - 1)) ELSE s
\* Variant of Strip: the secret is tested as it is.
NoStrip(s) == s
Strip(s) == RStrip(LStrip(s))


----------------------------------------------------------------------------
(* models.py *)

ProviderTypes == {"upstream", "gateway", "local", "free_tier"}

\* One item of Manifest.providers: the key and the ProviderConfig under it.
ProviderConfig(name, vault_key, env_var, type, endpoint, priority) ==
    [name |-> name, vault_key |-> vault_key, env_var |-> env_var, type |-> type,
     endpoint |-> endpoint, priority |-> priority]

\* Manifest.providers is a dict: its items in insertion order, the keys unique.
Manifest(version, identity, providers) ==
    [version |-> version, identity |-> identity, providers |-> providers]

ProviderNames(manifest) == {manifest.providers[i].name : i \in 1..Len(manifest.providers)}

\* manifest.providers[name] / manifest.providers.get(name)
ProvidersGet(manifest, name) ==
    IF name \in ProviderNames(manifest)
    THEN Some(manifest.providers[CHOOSE i \in 1..Len(manifest.providers) :
                                    manifest.providers[i].name = name])
    ELSE None

----------------------------------------------------------------------------
(* policy.py *)

\* The sort key that stands for "no priority".
ABSENT_PRIORITY_KEY == 10000

\* Variant of PriorityKey: the sign of the priority flipped.
PriorityKeyNegated(item) ==
    IF item.priority # None THEN 0 - item.priority[1] ELSE ABSENT_PRIORITY_KEY

\* key=lambda item: item[1].priority if item[1].priority is not None else 10_000
PriorityKey(item) ==
    IF item.priority # None THEN item.priority[1] ELSE ABSENT_PRIORITY_KEY

\* sorted(manifest.providers.items(), key=...)
Ranked(items) ==
    Sorted(items, [i \in 1..Len(items), j \in 1..Len(items) |->
                      PriorityKey(items[i]) < PriorityKey(items[j])])

\* Variant of resolve_provider: the override is returned without looking it up.
resolve_provider_trusting(manifest, explicit_provider) ==
    IF Truthy(explicit_provider)
    THEN Ok(explicit_provider[1])
    ELSE LET ranked == Ranked(manifest.providers)
         IN  IF ranked = <<>>
             THEN Raise("PolicyError", "No providers configured")
             ELSE Ok(ranked[1].name)

resolve_provider(manifest, explicit_provider) ==
    IF Truthy(explicit_provider)
    THEN IF explicit_provider[1] \notin ProviderNames(manifest)
         THEN Raise("PolicyError", "Unknown provider")
         ELSE Ok(explicit_provider[1])
    ELSE LET ranked == Ranked(manifest.providers)
         IN  IF ranked = <<>>
             THEN Raise("PolicyError", "No providers configured")
             ELSE Ok(ranked[1].name)

----------------------------------------------------------------------------
(* config.py *)

SERVICE_NAME == "agent_vault"

----------------------------------------------------------------------------
(* vault.py: the keyring maps <<service, key>> to a password, None when the
   backend holds no entry. *)

Services == {SERVICE_NAME, "other_service"}
VaultKeyStrings == {"", "k1", "k2"}
KeyringSlots == Services \X VaultKeyStrings
EmptyKeyring == [slot \in KeyringSlots |-> None]

\* How the backend answers a call: "ok", or the exception its calls raise.
\* With "KeyringError" every call raises a KeyringError that is not a
\* PasswordDeleteError; with "PasswordDeleteError" the backend cannot delete
\* and delete_password raises PasswordDeleteError for an entry it holds.
Backends == {"ok", "KeyringError", "PasswordDeleteError"}

\* except KeyringError: PasswordDeleteError is one of its subclasses.
IsKeyringError(out) == out.kind \in {"KeyringError", "PasswordDeleteError"}

\* keyring.get_password(service, key)
get_password(kr, service, key) ==
    IF backend = "KeyringError"
    THEN Raise("KeyringError", "backend failure")
    ELSE Ok(kr[<<service, key>>])

\* keyring.set_password(service, key, value)
set_password(kr, service, key, value) ==
    IF backend = "KeyringError"
    THEN [out |-> Raise("KeyringError", "backend failure"), keyring |-> kr]
    ELSE [out |-> Ok(None), keyring |-> [kr EXCEPT ![<<service, key>>] = Some(value)]]

\* keyring.delete_password(service, key): PasswordDeleteError when there is no
\* entry, and when the entry cannot be deleted.
delete_password(kr, service, key) ==
    IF backend = "KeyringError"
    THEN [out |-> Raise("KeyringError", "backend failure"), keyring |-> kr]
    ELSE IF backend = "PasswordDeleteError" \/ kr[<<service, key>>] = None
         THEN [out |-> Raise("PasswordDeleteError", "cannot delete"), keyring |-> kr]
         ELSE [out |-> Ok(None), keyring |-> [kr EXCEPT ![<<service, key>>] = None]]

\* Variant of set_secret: an existing entry is not overwritten.
set_secret_keep_first(kr, service, key, value) ==
    IF kr[<<service, key>>] = None
    THEN [out |-> Ok(None), keyring |-> [kr EXCEPT ![<<service, key>>] = Some(value)]]
    ELSE [out |-> Ok(None), keyring |-> kr]

set_secret(kr, service, key, value) ==
    LET r == set_password(kr, service, key, value)
    IN  IF IsKeyringError(r.out)
        THEN [out |-> Raise("VaultError", r.out.value), keyring |-> r.keyring]
        ELSE r

\* keyring.get_password, then `if not secret: raise VaultError`
get_secret(kr, service, key) ==
    LET secret == get_password(kr, service, key)
    IN  IF IsKeyringError(secret)
        THEN Raise("VaultError", secret.value)
        ELSE IF ~SecretTruthy(secret.value)
             THEN Raise("VaultError", "No secret found")
             ELSE Ok(secret.value[1])

has_secret(kr, service, key) ==
    LET secret == get_password(kr, service, key)
    IN  IF IsKeyringError(secret)
        THEN Raise("VaultError", secret.value)
        ELSE Ok(SecretTruthy(secret.value))

\* Variant of delete_secret: PasswordDeleteError is not told apart.
delete_secret_always_true(kr, service, key) ==
    [out |-> Ok(TRUE), keyring |-> [kr EXCEPT ![<<service, key>>] = None]]

delete_secret(kr, service, key) ==
    LET r == delete_password(kr, service, key)
    IN  IF r.out.kind = "PasswordDeleteError"
        THEN [out |-> Ok(FALSE), keyring |-> r.keyring]
        ELSE IF IsKeyringError(r.out)
             THEN [out |-> Raise("VaultError", r.out.value), keyring |-> r.keyring]
             ELSE [out |-> Ok(TRUE), keyring |-> r.keyring]

----------------------------------------------------------------------------
(* manifest.py *)

NoFile == [exists |-> FALSE]
File(doc) == [exists |-> TRUE, doc |-> doc]

\* Manifest.model_validate(data)
Valid(doc) ==
    /\ doc.version # ""
    /\ \A i \in 1..Len(doc.providers) : doc.providers[i].type \in ProviderTypes

load_manifest(file) ==
    IF ~file.exists
    THEN Raise("ManifestError", "Manifest not found")
    ELSE IF ~Valid(file.doc)
         THEN Raise("ManifestError", "Manifest validation failed")
         ELSE Ok(file.doc)

----------------------------------------------------------------------------
(* manifest.py on the text of the file *)

\* The text of a file is a sequence of tokens <<kind, payload>>: braces, the
\* keys of an object, strings, numbers and null.  A byte that is not UTF-8
\* is a token of its own.
LBrace == <<"punct", "{">>
RBrace == <<"punct", "}">>
Key(k) == <<"key", k>>
Str(s) == <<"str", s>>
Null == <<"null", "null">>
InvalidByte == <<"byte", "ff">>

\* An integer is written as its sign (1 or -1) followed by its decimal digits.
RECURSIVE Digits(_)
Digits(n) == IF n < 10 THEN <<n>> ELSE Append(Digits(n \div 10), n % 10)
Num(n) == <<"num", IF n < 0 THEN <<-1>> \o Digits(-n) ELSE <<1>> \o Digits(n)>>
RECURSIVE DigitsValue(_)
DigitsValue(ds) ==
    IF ds = <<>> THEN 0
    ELSE 10 * DigitsValue(SubSeq(ds, 1, Len(ds) - 1)) + ds[Len(ds)]
NumValue(token) == token[2][1] * DigitsValue(Tail(token[2]))

\* Variant of DumpOpt: None is written as the empty string.
DumpOptEmptyString(opt) == IF opt = None THEN Str("") ELSE Str(opt[1])

\* manifest.model_dump_json(indent=2): every field in declaration order, None
\* as null, the providers in insertion order under their names.
DumpOpt(opt) == IF opt = None THEN Null ELSE Str(opt[1])
DumpPriority(opt) == IF opt = None THEN Null ELSE Num(opt[1])
DumpProvider(config) ==
    <<Key(config.name), LBrace,
      Key("vault_key"), DumpOpt(config.vault_key),
      Key("env_var"), DumpOpt(config.env_var),
      Key("type"), Str(config.type),
      Key("endpoint"), DumpOpt(config.endpoint),
      Key("priority"), DumpPriority(config.priority),
      RBrace>>
RECURSIVE DumpProviders(_)
DumpProviders(providers) ==
    IF providers = <<>> THEN <<>>
    ELSE DumpProvider(Head(providers)) \o DumpProviders(Tail(providers))
model_dump_json(manifest) ==
    <<LBrace, Key("version"), Str(manifest.version),
      Key("identity"), DumpOpt(manifest.identity),
      Key("providers"), LBrace>>
    \o DumpProviders(manifest.providers) \o <<RBrace, RBrace>>

\* json.loads(text): a value is a string, a number, null, or an object
\* <<"obj", members>> whose members are <<key, value>> pairs in text order.
\* Anything else, and text left over after the value, is a JSONDecodeError.
ParseFail == [ok |-> FALSE, value |-> <<>>, next |-> 0]
RECURSIVE ParseValue(_, _)
RECURSIVE ParseMembers(_, _, _)
ParseValue(text, i) ==
    IF i > Len(text) THEN ParseFail
    ELSE IF text[i] = LBrace THEN ParseMembers(text, i + 1, <<>>)
    ELSE IF text[i][1] \in {"str", "num", "null"}
         THEN [ok |-> TRUE, value |-> text[i], next |-> i + 1]
         ELSE ParseFail
ParseMembers(text, i, members) ==
    IF i > Len(text) THEN ParseFail
    ELSE IF text[i] = RBrace
         THEN [ok |-> TRUE, value |-> <<"obj", members>>, next |-> i + 1]
    ELSE IF text[i][1] = "key"
         THEN LET v == ParseValue(text, i + 1)
              IN  IF ~v.ok THEN ParseFail
                  ELSE ParseMembers(text, v.next,
                                    Append(members, <<text[i][2], v.value>>))
         ELSE ParseFail
json_loads(text) ==
    LET v == ParseValue(text, 1)
    IN  IF v.ok /\ v.next = Len(text) + 1
        THEN Ok(v.value)
        ELSE Raise("JSONDecodeError", "Invalid JSON")

\* A parsed object as a dict: the last value of a key, the keys in the order
\* of their first occurrence.
IsObj(data) == data[1] = "obj"
RECURSIVE Lookup(_, _)
Lookup(members, key) ==
    IF members = <<>> THEN None
    ELSE IF members[Len(members)][1] = key
         THEN Some(members[Len(members)][2])
         ELSE Lookup(SubSeq(members, 1, Len(members) - 1), key)
RECURSIVE DictKeys(_)
DictKeys(members) ==
    IF members = <<>> THEN <<>>
    ELSE LET before == DictKeys(SubSeq(members, 1, Len(members) - 1))
             k == members[Len(members)][1]
         IN  IF \E i \in 1..Len(before) : before[i] = k
             THEN before ELSE Append(before, k)

\* Field rules of models.py: str | None = None, int | None = None (priority
\* is given as a JSON number or null in every text of the model).
OptStrValid(field) == field = None \/ field[1][1] \in {"null", "str"}
OptStrValue(field) ==
    IF field = None \/ field[1][1] = "null" THEN None ELSE Some(field[1][2])
OptIntValid(field) == field = None \/ field[1][1] \in {"null", "num"}
OptIntValue(field) ==
    IF field = None \/ field[1][1] = "null" THEN None ELSE Some(NumValue(field[1]))

\* ProviderConfig.model_validate
ProviderValid(data) ==
    /\ IsObj(data)
    /\ OptStrValid(Lookup(data[2], "vault_key"))
    /\ OptStrValid(Lookup(data[2], "env_var"))
    /\ Lookup(data[2], "type") # None
    /\ Lookup(data[2], "type")[1][1] = "str"
    /\ Lookup(data[2], "type")[1][2] \in ProviderTypes
    /\ OptStrValid(Lookup(data[2], "endpoint"))
    /\ OptIntValid(Lookup(data[2], "priority"))
ProviderOf(name, data) ==
    ProviderConfig(name,
                   OptStrValue(Lookup(data[2], "vault_key")),
                   OptStrValue(Lookup(data[2], "env_var")),
                   Lookup(data[2], "type")[1][2],
                   OptStrValue(Lookup(data[2], "endpoint")),
                   OptIntValue(Lookup(data[2], "priority")))

\* Manifest.model_validate(data)
model_validate(data) ==
    IF ~IsObj(data)
    THEN Raise("ValidationError", "Input should be an object")
    ELSE LET version == Lookup(data[2], "version")
             identity == Lookup(data[2], "identity")
             providers == Lookup(data[2], "providers")
         IN  IF \/ version = None
                \/ version[1][1] # "str"
                \/ version[1][2] = ""
                \/ ~OptStrValid(identity)
                \/ providers = None
                \/ ~IsObj(providers[1])
                \/ \E i \in 1..Len(providers[1][2]) :
                      ~ProviderValid(providers[1][2][i][2])
             THEN Raise("ValidationError", "Manifest validation failed")
             ELSE LET names == DictKeys(providers[1][2])
                  IN  Ok(Manifest(version[1][2], OptStrValue(identity),
                                  [i \in 1..Len(names) |->
                                      ProviderOf(names[i],
                                                 Lookup(providers[1][2], names[i])[1])]))

\* The file as text.  written is the manifest of the last write that ran to
\* its end, None before any (ghost).
NoDisk == [exists |-> FALSE, text |-> <<>>, written |-> None]
TextFile(text, written) == [exists |-> TRUE, text |-> text, written |-> written]

\* path.read_text(encoding="utf-8")
read_text(file) ==
    IF \E i \in 1..Len(file.text) : file.text[i] = InvalidByte
    THEN Raise("UnicodeDecodeError", "invalid start byte")
    ELSE Ok(file.text)

\* load_manifest from the read on: only the two exceptions of the except
\* clauses become ManifestError.
read_and_validate(file) ==
    LET text == read_text(file)
    IN  IF text.kind # "ok"
        THEN text
        ELSE LET data == json_loads(text.value)
             IN  IF data.kind # "ok"
                 THEN Raise("ManifestError", "Invalid JSON in manifest")
                 ELSE LET manifest == model_validate(data.value)
                      IN  IF manifest.kind # "ok"
                          THEN Raise("ManifestError", "Manifest validation failed")
                          ELSE manifest

\* f.write(data) on a file opened with "w": data replaces the text from the
\* start of the file, what lies beyond its end stays.
write_at_start(old_text, data) ==
    data \o SubSeq(old_text, Len(data) + 1, Len(old_text))

----------------------------------------------------------------------------
(* service.py *)

default_manifest ==
    Manifest("2026.1", Some("primary-dev-node"),
        <<ProviderConfig("openai_pro", Some("api.openai.com/pro_key"),
                         Some("OPENAI_API_KEY"), "upstream", None, Some(1)),
          ProviderConfig("openrouter", Some("api.openrouter.ai/default"),
                         Some("OPENROUTER_API_KEY"), "gateway",
                         Some("https://openrouter.ai/api/v1"), Some(2)),
          ProviderConfig("local_ollama", None, None, "local",
                         Some("http://localhost:11434"), Some(10))>>)

\* urlparse(endpoint): hostname, port and scheme of the endpoints of the model.
UrlParse(endpoint) ==
    CASE endpoint = "http://h"   -> [hostname |-> Some("h"), port |-> None, scheme |-> "http"]
      [] endpoint = "https://h:8443" -> [hostname |-> Some("h"), port |-> Some(8443), scheme |-> "https"]
      [] endpoint = "ftp://h"    -> [hostname |-> Some("h"), port |-> None, scheme |-> "ftp"]
      [] OTHER                   -> [hostname |-> None, port |-> None, scheme |-> ""]

\* connects: whether socket.create_connection succeeds within the timeout.
is_endpoint_reachable(endpoint, connects) ==
    LET parsed == UrlParse(endpoint)
    IN  IF ~Truthy(parsed.hostname)
        THEN FALSE
        ELSE IF parsed.port = None /\ parsed.scheme \notin {"https", "wss", "http", "ws"}
             THEN FALSE
             ELSE connects

\* Variant of provider_config: an unknown name falls back to the first provider.
provider_config_or_first(file, provider) ==
    LET manifest == load_manifest(file)
    IN  IF manifest.kind # "ok"
        THEN manifest
        ELSE LET config == ProvidersGet(manifest.value, provider)
             IN  IF config = None
                 THEN IF manifest.value.providers = <<>>
                      THEN Raise("ServiceError", "Provider not found")
                      ELSE Ok(manifest.value.providers[1])
                 ELSE Ok(config[1])

provider_config(file, provider) ==
    LET manifest == load_manifest(file)
    IN  IF manifest.kind # "ok"
        THEN manifest
        ELSE LET config == ProvidersGet(manifest.value, provider)
             IN  IF config = None
                 THEN Raise("ServiceError", "Provider not found")
                 ELSE Ok(config[1])

ProviderStatus(config, has_provider_secret, endpoint_reachable) ==
    [name |-> config.name, provider_type |-> config.type, env_var |-> config.env_var,
     vault_key |-> config.vault_key, endpoint |-> config.endpoint,
     priority |-> config.priority, has_secret |-> has_provider_secret,
     endpoint_reachable |-> endpoint_reachable]

\* The sort key that stands for "no priority" in the status list.
STATUS_ABSENT_PRIORITY_KEY == 10000

\* status.priority if status.priority is not None else 10_000
StatusPriorityKey(status) ==
    IF status.priority # None THEN status.priority[1] ELSE STATUS_ABSENT_PRIORITY_KEY

\* key=lambda status: (<priority key>, status.name), compared as tuples
StatusKeyLt(a, b) ==
    \/ StatusPriorityKey(a) < StatusPriorityKey(b)
    \/ (StatusPriorityKey(a) = StatusPriorityKey(b) /\ StrLt(a.name, b.name))

\* net[name]: whether the endpoint of provider name accepts a connection now.
list_provider_statuses(file, kr, net) ==
    LET manifest == load_manifest(file)
    IN  IF manifest.kind # "ok"
        THEN manifest
        ELSE LET items == manifest.value.providers
                 checked == [i \in 1..Len(items) |->
                     IF Truthy(items[i].vault_key)
                     THEN has_secret(kr, SERVICE_NAME, items[i].vault_key[1])
                     ELSE Ok(None)]
                 statuses == [i \in 1..Len(items) |->
                     ProviderStatus(items[i],
                         IF Truthy(items[i].vault_key)
                         THEN Some(checked[i].value)
                         ELSE None,
                         IF Truthy(items[i].endpoint)
                         THEN Some(is_endpoint_reachable(items[i].endpoint[1],
                                                         net[items[i].name]))
                         ELSE None)]
             IN  IF \E i \in 1..Len(items) : checked[i].kind # "ok"
                 THEN checked[CHOOSE i \in 1..Len(items) :
                                 /\ checked[i].kind # "ok"
                                 /\ \A j \in 1..(i - 1) : checked[j].kind = "ok"]
                 ELSE Ok(Sorted(statuses, [i \in 1..Len(items), j \in 1..Len(items) |->
                                              StatusKeyLt(statuses[i], statuses[j])]))

set_provider_secret(file, kr, provider, secret) ==
    IF Strip(secret) = <<>>
    THEN [out |-> Raise("ServiceError", "Secret cannot be empty"), keyring |-> kr]
    ELSE LET config == provider_config(file, provider)
         IN  IF config.kind # "ok"
             THEN [out |-> config, keyring |-> kr]
             ELSE IF ~Truthy(config.value.vault_key)
                  THEN [out |-> Raise("ServiceError", "Provider has no vault_key"),
                        keyring |-> kr]
                  ELSE set_secret(kr, SERVICE_NAME, config.value.vault_key[1], secret)

delete_provider_secret(file, kr, provider) ==
    LET config == provider_config(file, provider)
    IN  IF config.kind # "ok"
        THEN [out |-> config, keyring |-> kr]
        ELSE IF ~Truthy(config.value.vault_key)
             THEN [out |-> Raise("ServiceError", "Provider has no vault_key"),
                   keyring |-> kr]
             ELSE delete_secret(kr, SERVICE_NAME, config.value.vault_key[1])

\* Variant of test_provider: the endpoint failure is reported first.
test_provider_endpoint_first(file, kr, provider, connects) ==
    LET config == provider_config(file, provider)
    IN  IF config.kind # "ok"
        THEN config
        ELSE LET checked ==
                     IF Truthy(config.value.vault_key)
                     THEN has_secret(kr, SERVICE_NAME, config.value.vault_key[1])
                     ELSE Ok(None)
                 secret_status ==
                     IF Truthy(config.value.vault_key) THEN Some(checked.value) ELSE None
                 endpoint_status ==
                     IF Truthy(config.value.endpoint)
                     THEN Some(is_endpoint_reachable(config.value.endpoint[1], connects))
                     ELSE None
                 failures ==
                     (IF endpoint_status = Some(FALSE)
                      THEN <<"endpoint unreachable">> ELSE <<>>)
                     \o (IF secret_status = Some(FALSE) THEN <<"missing secret">> ELSE <<>>)
             IN  IF checked.kind # "ok"
                 THEN checked
                 ELSE Ok([provider |-> provider, has_secret |-> secret_status,
                          endpoint_reachable |-> endpoint_status, failures |-> failures])

test_provider(file, kr, provider, connects) ==
    LET config == provider_config(file, provider)
    IN  IF config.kind # "ok"
        THEN config
        ELSE LET checked ==
                     IF Truthy(config.value.vault_key)
                     THEN has_secret(kr, SERVICE_NAME, config.value.vault_key[1])
                     ELSE Ok(None)
                 secret_status ==
                     IF Truthy(config.value.vault_key) THEN Some(checked.value) ELSE None
                 endpoint_status ==
                     IF Truthy(config.value.endpoint)
                     THEN Some(is_endpoint_reachable(config.value.endpoint[1], connects))
                     ELSE None
                 failures ==
                     (IF secret_status = Some(FALSE) THEN <<"missing secret">> ELSE <<>>)
                     \o (IF endpoint_status = Some(FALSE)
                         THEN <<"endpoint unreachable">> ELSE <<>>)
             IN  IF checked.kind # "ok"
                 THEN checked
                 ELSE Ok([provider |-> provider, has_secret |-> secret_status,
                          endpoint_reachable |-> endpoint_status, failures |-> failures])

\* ProviderTestResult.ok
TestOk(test_result) == test_result.failures = <<>>

\* Variant of build_run_context: a missing secret leaves injected_env empty.
build_run_context_lenient(file, kr, provider_override) ==
    LET manifest == load_manifest(file)
    IN  IF manifest.kind # "ok"
        THEN manifest
        ELSE LET chosen == resolve_provider(manifest.value, provider_override)
             IN  IF chosen.kind # "ok"
                 THEN chosen
                 ELSE LET config == ProvidersGet(manifest.value, chosen.value)[1]
                      IN  IF Truthy(config.env_var) /\ Truthy(config.vault_key)
                             /\ has_secret(kr, SERVICE_NAME, config.vault_key[1]) = Ok(TRUE)
                          THEN Ok([provider |-> chosen.value,
                                   injected_env |->
                                       {<<config.env_var[1],
                                          get_secret(kr, SERVICE_NAME,
                                                     config.vault_key[1]).value>>}])
                          ELSE Ok([provider |-> chosen.value, injected_env |-> {}])

\* injected_env is a dict: the set of its <<name, value>> items.
build_run_context(file, kr, provider_override) ==
    LET manifest == load_manifest(file)
    IN  IF manifest.kind # "ok"
        THEN manifest
        ELSE LET chosen == resolve_provider(manifest.value, provider_override)
             IN  IF chosen.kind # "ok"
                 THEN chosen
                 ELSE LET config == ProvidersGet(manifest.value, chosen.value)[1]
                      IN  IF Truthy(config.env_var) /\ Truthy(config.vault_key)
                          THEN LET secret == get_secret(kr, SERVICE_NAME,
                                                        config.vault_key[1])
                               IN  IF secret.kind # "ok"
                                   THEN secret
                                   ELSE Ok([provider |-> chosen.value,
                                            injected_env |->
                                                {<<config.env_var[1], secret.value>>}])
                          ELSE Ok([provider |-> chosen.value, injected_env |-> {}])

\* Variant of build_run_context_after_load: the provider is resolved on the
\* manifest loaded at the start, its configuration is read from the file as
\* it is now.
build_run_context_reloading(loaded, kr, provider_override) ==
    LET chosen == resolve_provider(loaded, provider_override)
        now == load_manifest(manifest_file)
    IN  IF chosen.kind # "ok" THEN chosen
        ELSE IF now.kind # "ok" THEN now
        ELSE IF ProvidersGet(now.value, chosen.value) = None
             THEN Raise("KeyError", chosen.value)
             ELSE LET config == ProvidersGet(now.value, chosen.value)[1]
                  IN  IF Truthy(config.env_var) /\ Truthy(config.vault_key)
                      THEN LET secret == get_secret(kr, SERVICE_NAME, config.vault_key[1])
                           IN  IF secret.kind # "ok" THEN secret
                               ELSE Ok([provider |-> chosen.value,
                                        injected_env |->
                                            {<<config.env_var[1], secret.value>>}])
                      ELSE Ok([provider |-> chosen.value, injected_env |-> {}])

\* build_run_context once self.load_manifest() has returned: everything that
\* follows reads the local variable manifest.
build_run_context_after_load(loaded, kr, provider_override) ==
    build_run_context(File(loaded), kr, provider_override)

\* A service call once its one load of the manifest has returned.
service_call_after_load(op, args, loaded, kr) ==
    CASE op = "build_run_context" ->
            [out |-> build_run_context_after_load(loaded, kr, args[1]), keyring |-> kr]
      [] op = "set_provider_secret" ->
            set_provider_secret(File(loaded), kr, args[1], args[2])
      [] op = "delete_provider_secret" ->
            delete_provider_secret(File(loaded), kr, args[1])
      [] op = "test_provider" ->
            [out |-> test_provider(File(loaded), kr, args[1], TRUE), keyring |-> kr]

----------------------------------------------------------------------------
(* api.py: the mutating routes.  A header value is a sequence of code points,
   a response is its status code. *)

Response(status) == [kind |-> "response", value |-> status]

\* secrets.compare_digest(a, b) on two str: TypeError unless both are ASCII.
compare_digest(a, b) ==
    IF \E i \in 1..Len(a) : a[i] > 127
    THEN Raise("TypeError", "comparing strings with non-ASCII characters is not supported")
    ELSE Ok(a = b)

\* if not provided or not secrets.compare_digest(provided, auth_token): 401
require_write_token(provided, auth_token) ==
    IF provided = None \/ provided[1] = <<>>
    THEN Raise("HTTPException", 401)
    ELSE LET same == compare_digest(provided[1], auth_token)
         IN  IF same.kind # "ok" THEN same
             ELSE IF ~same.value THEN Raise("HTTPException", 401)
             ELSE Ok(None)

\* What the client receives when the route function raises: the status of an
\* HTTPException, 500 for any other exception.
RaisedResponse(out) ==
    IF out.kind = "HTTPException" THEN Response(out.value) ELSE Response(500)

\* run_service_call(fn), on what fn returned or raised
run_service_call(out) ==
    IF out.kind \in {"ManifestError", "ServiceError"} THEN Raise("HTTPException", 400)
    ELSE IF out.kind = "VaultError" THEN Raise("HTTPException", 500)
    ELSE out

\* SecretWriteRequest: secret: str = Field(min_length=1)
SecretWriteRequestValid(payload) == payload # None /\ Len(payload[1]) >= 1

\* ManifestUpdateRequest: manifest: Manifest
ManifestUpdateRequestValid(payload) == payload # None /\ Valid(payload[1])

\* write_manifest, for the calls of the service that see the file as the
\* document it holds.
write_manifest(manifest) == File(manifest)

\* POST /providers/{provider}/secret.  The payload is validated before the
\* route function is called (422); the function checks the token first.
api_set_provider_secret(file, kr, auth_token, provided, provider, payload) ==
    IF ~SecretWriteRequestValid(payload)
    THEN [response |-> Response(422), keyring |-> kr, manifest_file |-> file]
    ELSE LET allowed == require_write_token(provided, auth_token)
         IN  IF allowed.kind # "ok"
             THEN [response |-> RaisedResponse(allowed), keyring |-> kr,
                   manifest_file |-> file]
             ELSE LET r == set_provider_secret(file, kr, provider, payload[1])
                      served == run_service_call(r.out)
                  IN  [response |-> IF served.kind # "ok" THEN RaisedResponse(served)
                                    ELSE Response(200),
                       keyring |-> r.keyring, manifest_file |-> file]

\* DELETE /providers/{provider}/secret
api_delete_provider_secret(file, kr, auth_token, provided, provider) ==
    LET allowed == require_write_token(provided, auth_token)
    IN  IF allowed.kind # "ok"
        THEN [response |-> RaisedResponse(allowed), keyring |-> kr, manifest_file |-> file]
        ELSE LET r == delete_provider_secret(file, kr, provider)
                 served == run_service_call(r.out)
             IN  [response |-> IF served.kind # "ok" THEN RaisedResponse(served)
                               ELSE Response(200),
                  keyring |-> r.keyring, manifest_file |-> file]

\* PUT /manifest
api_update_manifest(file, kr, auth_token, provided, payload) ==
    IF ~ManifestUpdateRequestValid(payload)
    THEN [response |-> Response(422), keyring |-> kr, manifest_file |-> file]
    ELSE LET allowed == require_write_token(provided, auth_token)
         IN  IF allowed.kind # "ok"
             THEN [response |-> RaisedResponse(allowed), keyring |-> kr,
                   manifest_file |-> file]
             ELSE [response |-> Response(200), keyring |-> kr,
                   manifest_file |-> write_manifest(payload[1])]

----------------------------------------------------------------------------
(* The calls and their inputs *)

MaxPriority == 2
MaxProviders == 2

\* Sequences of distinct names of NamePool, at most n long.
NameSeqs(pool, n) ==
    {ns \in UNION {[1..k -> pool] : k \in 0..n} :
        \A i, j \in 1..Len(ns) : i # j => ns[i] # ns[j]}

\* Manifests whose providers differ in priority only: small priorities and the
\* ones around the key that stands for "no priority".
PolicyPriorities ==
    {None} \cup {Some(n) : n \in (-1..MaxPriority) \cup
                          ((ABSENT_PRIORITY_KEY - 1)..(ABSENT_PRIORITY_KEY + 1))}
PolicyNames == {NamePool[i] : i \in 1..Len(NamePool)}
PolicyManifests ==
    UNION {{Manifest("2026.1", None,
                [i \in 1..Len(ns) |->
                    ProviderConfig(ns[i], None, None, "upstream", None, pr[i])]) :
              pr \in [1..Len(ns) -> PolicyPriorities]} :
           ns \in NameSeqs(PolicyNames, MaxProviders)}

\* Manifests whose providers differ in vault_key, env_var and endpoint: alpha
\* takes every combination, beta the ones that can share or not share alpha's
\* keyring entry and environment variable.
ServiceNames == {"alpha", "beta"}
ServiceConfigs(name) ==
    IF name = "alpha"
    THEN {ProviderConfig(name, vk, ev, "upstream", ep, None) :
            vk \in {None, Some(""), Some("k1"), Some("k2")},
            ev \in {None, Some(""), Some("E1")},
            ep \in {None, Some("http://h")}}
    ELSE {ProviderConfig(name, vk, ev, "upstream", None, None) :
            vk \in {None, Some("k1"), Some("k2")},
            ev \in {None, Some("E1")}}
ServiceManifests ==
    UNION {{Manifest("2026.1", None, [i \in 1..Len(ns) |-> cs[i]]) :
              cs \in {f \in [1..Len(ns) -> UNION {ServiceConfigs(n) : n \in ServiceNames}] :
                        \A i \in 1..Len(ns) : f[i].name = ns[i]}} :
           ns \in NameSeqs(ServiceNames, 2)}

\* The provider argument of a call, and the override of a run.
ProviderArgs == PolicyNames \cup {"unknown"}
Overrides == {None, Some("")} \cup {Some(n) : n \in ProviderArgs}
ServiceProviderArgs == ServiceNames \cup {"unknown"}
ServiceOverrides == {None, Some("")} \cup {Some(n) : n \in ServiceProviderArgs}

\* The secret argument: empty, blank, plain, and with blanks around it.
Secrets == {<<>>, <<" ">>, <<" ", " ">>, <<"a">>, <<" ", "b", " ">>}

NoCall == [op |-> "none", args |-> <<>>, out |-> Ok(None)]

\* history[name]: the last set or delete that returned on provider name, or
\* "disturbed" once a set or delete on another provider wrote the same
\* keyring entry.
NoHistory == [n \in ProviderArgs |-> <<"none">>]
SharesEntry(file, a, b) ==
    /\ load_manifest(file).kind = "ok"
    /\ LET ca == ProvidersGet(load_manifest(file).value, a)
           cb == ProvidersGet(load_manifest(file).value, b)
       IN  /\ ca # None /\ cb # None
           /\ Truthy(ca[1].vault_key)
           /\ ca[1].vault_key = cb[1].vault_key
Record(file, h, provider, out, entry) ==
    IF out.kind # "ok"
    THEN h
    ELSE [n \in DOMAIN h |->
            IF n = provider THEN entry
            ELSE IF SharesEntry(file, provider, n) THEN <<"disturbed">>
            ELSE h[n]]

\* The callers that may be inside a manifest call at the same time.
NumCallers == 2
Callers == 1..NumCallers

\* A caller: the call it is in (op, arg), the next step of that call (pc),
\* what the call returned or raised, whether its open created the file
\* (ghost), and the manifest a service call has loaded (its local variable).
Pending == [kind |-> "pending", value |-> <<>>]
Idle == [pc |-> "idle", op |-> "none", arg |-> None, out |-> Pending, created |-> FALSE,
         snapshot |-> None]
NoProc == [p \in Callers |-> Idle]

\* The manifests that are saved while other callers run: no provider, and one
\* provider, so that their texts differ in length from each other and from
\* the text of default_manifest.
SavedManifests ==
    {Manifest("2026.1", None, <<>>),
     Manifest("2026.2", Some("node"),
              <<ProviderConfig("alpha", Some("k1"), Some("E1"), "upstream",
                               Some("http://h"), Some(1))>>)}

\* The manifests of a save followed by a load: every optional field absent,
\* empty and set, priorities of both signs, an identity or none, and two
\* providers inserted in an order that is not the order of their names.
RoundTripConfigs(name) ==
    {ProviderConfig(name, vk, fields[1], fields[2], fields[3], pr) :
        vk \in {None, Some(""), Some("k1")},
        fields \in {<<None, "upstream", None>>,
                    <<Some("E1"), "free_tier", Some("http://h")>>},
        pr \in {None, Some(-1), Some(120)}}
RoundTripManifests ==
    {Manifest("2026.1", identity, <<>>) : identity \in {None, Some(""), Some("node")}}
    \cup {Manifest("2026.1", None, <<config>>) : config \in RoundTripConfigs("alpha")}
    \cup {Manifest("2", Some("node"),
                   <<ProviderConfig("beta", None, None, "local", None, Some(7)), config>>) :
            config \in RoundTripConfigs("alpha")}

\* Texts that are not the dump of a manifest: the test file of
\* test_manifest.py (optional fields left out), and texts load_manifest is to
\* refuse.
TestManifestText ==
    <<LBrace, Key("version"), Str("2026.1"), Key("providers"), LBrace,
      Key("p"), LBrace, Key("type"), Str("upstream"), RBrace, RBrace, RBrace>>
BadTexts ==
    {<<>>,
     <<RBrace>>,
     <<Null>>,
     SubSeq(model_dump_json(default_manifest), 1, Len(model_dump_json(default_manifest)) - 1),
     model_dump_json(default_manifest) \o <<RBrace>>,
     <<LBrace, Key("providers"), LBrace, RBrace, RBrace>>,
     <<LBrace, Key("version"), Str("2026.1"), RBrace>>,
     <<LBrace, Key("version"), Num(2026), Key("providers"), LBrace, RBrace, RBrace>>,
     <<LBrace, Key("version"), Str("2026.1"), Key("providers"), Str("none"), RBrace>>,
     <<LBrace, Key("version"), Str("2026.1"), Key("providers"), LBrace,
       Key("p"), LBrace, Key("priority"), Num(1), RBrace, RBrace, RBrace>>,
     model_dump_json(Manifest("", None, <<>>)),
     model_dump_json(Manifest("2026.1", None,
         <<ProviderConfig("p", None, None, "remote", None, None)>>)),
     <<LBrace, Key("version"), Str("2026.1"), InvalidByte, Key("providers"),
       LBrace, RBrace, RBrace>>}

\* The adapter calls on the keyring: the keys of the two providers of
\* VaultManifest, and a value that is empty or not.
VaultKeys == {"k1", "k2"}
VaultValues == {<<>>, <<"a">>}
VaultManifest ==
    Manifest("2026.1", None,
             <<ProviderConfig("alpha", Some("k1"), Some("E1"), "upstream", None, None),
               ProviderConfig("beta", Some("k2"), None, "local", Some("http://h"), None)>>)
VaultProviders == {"alpha", "beta"}

\* The requests to the mutating routes: the token the app was created with,
\* the X-Agent-Vault-Token header (missing, empty, the token, a prefix of it,
\* a value that is not ASCII), and the payloads.
AuthToken == <<116, 111, 112>>
TokenHeaders ==
    {None, Some(<<>>), Some(AuthToken), Some(<<116, 111>>), Some(<<116, 111, 233>>)}
SecretPayloads == {None, Some(<<>>), Some(<<" ">>), Some(<<"a">>), Some(<<"b">>)}
ManifestPayloads ==
    {None, Some(VaultManifest), Some(Manifest("", None, <<>>)),
     Some(Manifest("2026.1", None, <<>>))}

\* Two versions of the manifest that disagree on which provider is selected,
\* on the providers they hold and on the configuration of alpha.
SnapshotManifests ==
    {Manifest("2026.1", None,
              <<ProviderConfig("alpha", Some("k1"), Some("E1"), "upstream", None, Some(2)),
                ProviderConfig("beta", Some("k2"), Some("E2"), "local", None, Some(1))>>),
     Manifest("2026.2", None,
              <<ProviderConfig("alpha", Some("k2"), Some("E2"), "upstream", None, None)>>)}
SnapshotSecrets == {<<"a">>, <<"b">>}

----------------------------------------------------------------------------
(* Actions: one per call *)

ResolveProvider(explicit_provider) ==
    /\ manifest_file.exists
    /\ result' = Call("resolve_provider", <<explicit_provider>>,
                      resolve_provider(manifest_file.doc, explicit_provider))
    /\ UNCHANGED <<manifest_file, keyring, history, disk, proc, backend>>

ListProviderStatuses(net) ==
    /\ result' = Call("list_provider_statuses", <<>>,
                      list_provider_statuses(manifest_file, keyring, net))
    /\ UNCHANGED <<manifest_file, keyring, history, disk, proc, backend>>

SetProviderSecret(provider, secret) ==
    LET r == set_provider_secret(manifest_file, keyring, provider, secret)
    IN  /\ keyring' = r.keyring
        /\ result' = Call("set_provider_secret", <<provider, secret>>, r.out)
        /\ history' = Record(manifest_file, history, provider, r.out, <<"set", secret>>)
        /\ UNCHANGED <<manifest_file, disk, proc, backend>>

DeleteProviderSecret(provider) ==
    LET r == delete_provider_secret(manifest_file, keyring, provider)
    IN  /\ keyring' = r.keyring
        /\ result' = Call("delete_provider_secret", <<provider>>, r.out)
        /\ history' = Record(manifest_file, history, provider, r.out, <<"deleted">>)
        /\ UNCHANGED <<manifest_file, disk, proc, backend>>

TestProvider(provider, connects) ==
    /\ result' = Call("test_provider", <<provider>>,
                      test_provider(manifest_file, keyring, provider, connects))
    /\ UNCHANGED <<manifest_file, keyring, history, disk, proc, backend>>

BuildRunContext(provider_override) ==
    /\ result' = Call("build_run_context", <<provider_override>>,
                      build_run_context(manifest_file, keyring, provider_override))
    /\ UNCHANGED <<manifest_file, keyring, history, disk, proc, backend>>

\* The steps of init_manifest, save_manifest and load_manifest of caller p:
\* one action per system call.

CallInitManifest(p) ==
    /\ proc[p].pc = "idle"
    /\ proc' = [proc EXCEPT ![p] = [Idle EXCEPT !.pc = "exists", !.op = "init_manifest"]]
    /\ UNCHANGED <<manifest_file, keyring, result, history, disk, backend>>

\* if self._manifest_path.exists(): return False
InitExists(p) ==
    /\ proc[p].pc = "exists" /\ proc[p].op = "init_manifest"
    /\ proc' = [proc EXCEPT ![p] =
                  IF disk.exists
                  THEN [@ EXCEPT !.pc = "done", !.out = Ok(FALSE)]
                  ELSE [@ EXCEPT !.pc = "open"]]
    /\ UNCHANGED <<manifest_file, keyring, result, history, disk, backend>>

CallSaveManifest(p, manifest) ==
    /\ proc[p].pc = "idle"
    /\ proc' = [proc EXCEPT ![p] =
                  [Idle EXCEPT !.pc = "open", !.op = "save_manifest",
                               !.arg = Some(manifest)]]
    /\ UNCHANGED <<manifest_file, keyring, result, history, disk, backend>>

\* write_manifest, path.write_text: open(path, "w") creates the file or
\* truncates it.
WriteOpen(p) ==
    /\ proc[p].pc = "open"
    /\ disk' = TextFile(<<>>, disk.written)
    /\ proc' = [proc EXCEPT ![p] = [@ EXCEPT !.pc = "write", !.created = ~disk.exists]]
    /\ UNCHANGED <<manifest_file, keyring, result, history, backend>>

\* write_manifest, path.write_text: the text goes to the file when it is
\* closed; init_manifest then returns True, save_manifest None.
WriteData(p) ==
    /\ proc[p].pc = "write"
    /\ LET manifest == IF proc[p].op = "init_manifest"
                       THEN default_manifest ELSE proc[p].arg[1]
       IN  disk' = TextFile(write_at_start(disk.text, model_dump_json(manifest)),
                            Some(manifest))
    /\ proc' = [proc EXCEPT ![p] =
                  [@ EXCEPT !.pc = "done",
                            !.out = IF proc[p].op = "init_manifest"
                                    THEN Ok(TRUE) ELSE Ok(None)]]
    /\ UNCHANGED <<manifest_file, keyring, result, history, backend>>

CallLoadManifest(p) ==
    /\ proc[p].pc = "idle"
    /\ proc' = [proc EXCEPT ![p] = [Idle EXCEPT !.pc = "exists", !.op = "load_manifest"]]
    /\ UNCHANGED <<manifest_file, keyring, result, history, disk, backend>>

\* if not path.exists(): raise ManifestError
LoadExists(p) ==
    /\ proc[p].pc = "exists" /\ proc[p].op = "load_manifest"
    /\ proc' = [proc EXCEPT ![p] =
                  IF ~disk.exists
                  THEN [@ EXCEPT !.pc = "done",
                                 !.out = Raise("ManifestError", "Manifest not found")]
                  ELSE [@ EXCEPT !.pc = "read"]]
    /\ UNCHANGED <<manifest_file, keyring, result, history, disk, backend>>

LoadRead(p) ==
    /\ proc[p].pc = "read"
    /\ proc' = [proc EXCEPT ![p] = [@ EXCEPT !.pc = "done", !.out = read_and_validate(disk)]]
    /\ UNCHANGED <<manifest_file, keyring, result, history, disk, backend>>

\* The caller has its answer and is free for the next call.
Return(p) ==
    /\ proc[p].pc = "done"
    /\ proc' = [proc EXCEPT ![p] = Idle]
    /\ UNCHANGED <<manifest_file, keyring, result, history, disk, backend>>

----------------------------------------------------------------------------
(* The manifest file under concurrent callers *)

FileInit ==
    /\ manifest_file = NoFile
    /\ keyring = EmptyKeyring
    /\ result = NoCall
    /\ history = NoHistory
    /\ disk \in {NoDisk} \cup {TextFile(model_dump_json(m), Some(m)) : m \in SavedManifests}
    /\ proc = NoProc
    /\ backend = "ok"

FileNext ==
    \E p \in Callers :
        \/ CallInitManifest(p)
        \/ InitExists(p)
        \/ \E manifest \in SavedManifests : CallSaveManifest(p, manifest)
        \/ WriteOpen(p)
        \/ WriteData(p)
        \/ CallLoadManifest(p)
        \/ LoadExists(p)
        \/ LoadRead(p)
        \/ Return(p)

SpecFile == FileInit /\ [][FileNext]_vars

----------------------------------------------------------------------------
(* The manifest file under one caller: each call runs to its end before the
   next one starts *)

SequentialInit ==
    /\ manifest_file = NoFile
    /\ keyring = EmptyKeyring
    /\ result = NoCall
    /\ history = NoHistory
    /\ disk \in {NoDisk, TextFile(TestManifestText, None)}
                \cup {TextFile(text, None) : text \in BadTexts}
    /\ proc = NoProc
    /\ backend = "ok"

SequentialNext ==
    \/ CallInitManifest(1)
    \/ InitExists(1)
    \/ \E manifest \in RoundTripManifests : CallSaveManifest(1, manifest)
    \/ WriteOpen(1)
    \/ WriteData(1)
    \/ CallLoadManifest(1)
    \/ LoadExists(1)
    \/ LoadRead(1)
    \/ Return(1)

SpecSequential == SequentialInit /\ [][SequentialNext]_vars

----------------------------------------------------------------------------
(* The keyring adapter and the service over a backend that may fail *)

SetSecret(service, key, value) ==
    LET r == set_secret(keyring, service, key, value)
    IN  /\ keyring' = r.keyring
        /\ result' = Call("set_secret", <<service, key, value>>, r.out)
        /\ UNCHANGED <<manifest_file, history, disk, proc, backend>>

GetSecret(service, key) ==
    /\ result' = Call("get_secret", <<service, key>>, get_secret(keyring, service, key))
    /\ UNCHANGED <<manifest_file, keyring, history, disk, proc, backend>>

HasSecret(service, key) ==
    /\ result' = Call("has_secret", <<service, key>>, has_secret(keyring, service, key))
    /\ UNCHANGED <<manifest_file, keyring, history, disk, proc, backend>>

DeleteSecret(service, key) ==
    LET r == delete_secret(keyring, service, key)
    IN  /\ keyring' = r.keyring
        /\ result' = Call("delete_secret", <<service, key>>, r.out)
        /\ UNCHANGED <<manifest_file, history, disk, proc, backend>>

\* The backend starts or stops failing between two calls.
BackendChange(answer) ==
    /\ backend # answer
    /\ backend' = answer
    /\ UNCHANGED <<manifest_file, keyring, result, history, disk, proc>>

VaultInit ==
    /\ manifest_file = File(VaultManifest)
    /\ keyring = EmptyKeyring
    /\ result = NoCall
    /\ history = NoHistory
    /\ disk = NoDisk
    /\ proc = NoProc
    /\ backend = "ok"

VaultNext ==
    \/ \E key \in VaultKeys, value \in VaultValues : SetSecret(SERVICE_NAME, key, value)
    \/ \E key \in VaultKeys : GetSecret(SERVICE_NAME, key)
    \/ \E key \in VaultKeys : HasSecret(SERVICE_NAME, key)
    \/ \E key \in VaultKeys : DeleteSecret(SERVICE_NAME, key)
    \/ \E answer \in Backends : BackendChange(answer)
    \/ \E provider \in VaultProviders : SetProviderSecret(provider, <<"a">>)
    \/ \E provider \in VaultProviders : DeleteProviderSecret(provider)
    \/ \E provider \in VaultProviders : TestProvider(provider, TRUE)
    \/ ListProviderStatuses([n \in ServiceNames |-> TRUE])
    \/ \E provider_override \in {None, Some("beta")} : BuildRunContext(provider_override)

SpecVault == VaultInit /\ [][VaultNext]_vars

----------------------------------------------------------------------------
(* The mutating routes of the HTTP API *)

PostProviderSecret(provided, provider, payload) ==
    LET r == api_set_provider_secret(manifest_file, keyring, AuthToken,
                                     provided, provider, payload)
    IN  /\ keyring' = r.keyring
        /\ manifest_file' = r.manifest_file
        /\ result' = Call("POST /providers/{provider}/secret",
                          <<provided, provider, payload>>, r.response)
        /\ UNCHANGED <<history, disk, proc, backend>>

DeleteProviderSecretRoute(provided, provider) ==
    LET r == api_delete_provider_secret(manifest_file, keyring, AuthToken,
                                        provided, provider)
    IN  /\ keyring' = r.keyring
        /\ manifest_file' = r.manifest_file
        /\ result' = Call("DELETE /providers/{provider}/secret",
                          <<provided, provider>>, r.response)
        /\ UNCHANGED <<history, disk, proc, backend>>

PutManifest(provided, payload) ==
    LET r == api_update_manifest(manifest_file, keyring, AuthToken, provided, payload)
    IN  /\ keyring' = r.keyring
        /\ manifest_file' = r.manifest_file
        /\ result' = Call("PUT /manifest", <<provided, payload>>, r.response)
        /\ UNCHANGED <<history, disk, proc, backend>>

ApiInit ==
    /\ manifest_file \in {NoFile, File(VaultManifest)}
    /\ keyring = EmptyKeyring
    /\ result = NoCall
    /\ history = NoHistory
    /\ disk = NoDisk
    /\ proc = NoProc
    /\ backend = "ok"

ApiNext ==
    \/ \E provided \in TokenHeaders, provider \in ServiceProviderArgs,
          payload \in SecretPayloads :
          PostProviderSecret(provided, provider, payload)
    \/ \E provided \in TokenHeaders, provider \in ServiceProviderArgs :
          DeleteProviderSecretRoute(provided, provider)
    \/ \E provided \in TokenHeaders, payload \in ManifestPayloads :
          PutManifest(provided, payload)

SpecApi == ApiInit /\ [][ApiNext]_vars

----------------------------------------------------------------------------
(* The service calls of one caller, step by step, while the manifest is saved
   by another *)

\* Caller p enters a service method.
CallService(p, op, args) ==
    /\ proc[p].pc = "idle"
    /\ proc' = [proc EXCEPT ![p] = [Idle EXCEPT !.pc = "load", !.op = op,
                                                 !.arg = Some(args)]]
    /\ UNCHANGED <<manifest_file, keyring, result, history, disk, backend>>

\* manifest = self.load_manifest(), in build_run_context and _provider_config
ServiceLoad(p) ==
    /\ proc[p].pc = "load"
    /\ LET manifest == load_manifest(manifest_file)
       IN  proc' = [proc EXCEPT ![p] =
                      IF manifest.kind # "ok"
                      THEN [@ EXCEPT !.pc = "done", !.out = manifest]
                      ELSE [@ EXCEPT !.pc = "work", !.snapshot = Some(manifest.value)]]
    /\ UNCHANGED <<manifest_file, keyring, result, history, disk, backend>>

\* The rest of the method, on the manifest it loaded.
ServiceWork(p) ==
    /\ proc[p].pc = "work"
    /\ LET r == service_call_after_load(proc[p].op, proc[p].arg[1],
                                        proc[p].snapshot[1], keyring)
       IN  /\ keyring' = r.keyring
           /\ proc' = [proc EXCEPT ![p] = [@ EXCEPT !.pc = "done", !.out = r.out]]
    /\ UNCHANGED <<manifest_file, result, history, disk, backend>>

\* Another caller's save_manifest(manifest) runs to its end.
SaveManifest(manifest) ==
    /\ manifest_file # write_manifest(manifest)
    /\ manifest_file' = write_manifest(manifest)
    /\ UNCHANGED <<keyring, result, history, disk, proc, backend>>

SnapshotInit ==
    /\ manifest_file \in {File(manifest) : manifest \in SnapshotManifests}
    /\ keyring = EmptyKeyring
    /\ result = NoCall
    /\ history = NoHistory
    /\ disk = NoDisk
    /\ proc = NoProc
    /\ backend = "ok"

SnapshotNext ==
    \/ \E provider_override \in {None, Some("alpha"), Some("beta")} :
          CallService(1, "build_run_context", <<provider_override>>)
    \/ \E provider \in VaultProviders, secret \in SnapshotSecrets :
          CallService(1, "set_provider_secret", <<provider, secret>>)
    \/ \E provider \in VaultProviders :
          CallService(1, "delete_provider_secret", <<provider>>)
    \/ \E provider \in VaultProviders : CallService(1, "test_provider", <<provider>>)
    \/ ServiceLoad(1)
    \/ ServiceWork(1)
    \/ Return(1)
    \/ \E manifest \in SnapshotManifests : SaveManifest(manifest)

SpecSnapshot == SnapshotInit /\ [][SnapshotNext]_vars

----------------------------------------------------------------------------
(* The selection policy and the status list on every manifest of
   PolicyManifests *)

PolicyInit ==
    /\ manifest_file \in {File(m) : m \in PolicyManifests}
    /\ keyring = EmptyKeyring
    /\ result = NoCall
    /\ history = NoHistory
    /\ disk = NoDisk
    /\ proc = NoProc
    /\ backend = "ok"

PolicyNext ==
    \/ \E explicit_provider \in Overrides : ResolveProvider(explicit_provider)
    \/ \E net \in [PolicyNames -> BOOLEAN] : ListProviderStatuses(net)

SpecPolicy == PolicyInit /\ [][PolicyNext]_vars

----------------------------------------------------------------------------
(* The service over a manifest of ServiceManifests and an empty keyring *)

Init ==
    /\ manifest_file \in {NoFile} \cup {File(m) : m \in ServiceManifests}
    /\ keyring = EmptyKeyring
    /\ result = NoCall
    /\ history = NoHistory
    /\ disk = NoDisk
    /\ proc = NoProc
    /\ backend = "ok"

Next ==
    \/ \E provider \in ServiceProviderArgs, secret \in Secrets :
          SetProviderSecret(provider, secret)
    \/ \E provider \in ServiceProviderArgs : DeleteProviderSecret(provider)
    \/ \E provider \in ServiceProviderArgs, connects \in BOOLEAN :
          TestProvider(provider, connects)
    \/ \E net \in [ServiceNames -> BOOLEAN] : ListProviderStatuses(net)
    \/ \E provider_override \in ServiceOverrides : BuildRunContext(provider_override)

Spec == Init /\ [][Next]_vars

----------------------------------------------------------------------------
(* Properties of the selection policy (SpecPolicy) *)

\* The call that has just returned.
Resolved(explicit_provider) ==
    /\ result.op = "resolve_provider"
    /\ result.args = <<explicit_provider>>
Providers == manifest_file.doc.providers
Explicit == {i \in 1..Len(Providers) : Providers[i].priority # None}

\* The best-ranked providers as the specification ranks them: the lowest
\* explicit priority, and only when none is explicit the providers without one.
BestRanked ==
    IF Explicit # {}
    THEN {i \in Explicit : \A j \in Explicit :
            Providers[i].priority[1] <= Providers[j].priority[1]}
    ELSE 1..Len(Providers)
SmallestName(names) == CHOOSE n \in names : \A m \in names : n = m \/ StrLt(n, m)

\* C1: with no override, when two or more providers share the best rank
\* (equal explicit priority, or all without a priority), resolve_provider
\* returns the lexicographically smallest name among them, whatever the
\* insertion order of the providers.
C1_TieBrokenByName ==
    (Resolved(None) /\ Cardinality(BestRanked) >= 2)
        => result.out = Ok(SmallestName({Providers[i].name : i \in BestRanked}))

\* C2: a provider without a priority sorts after every provider with an
\* explicit one: with no override resolve_provider never returns a provider
\* without a priority when some provider has one, and list_provider_statuses
\* never places a status without a priority before one with a priority.
C2_AbsentPrioritySortsLast ==
    /\ (Resolved(None) /\ Explicit # {})
          => /\ result.out.kind = "ok"
             /\ ProvidersGet(manifest_file.doc, result.out.value)[1].priority # None
    /\ (result.op = "list_provider_statuses" /\ result.out.kind = "ok")
          => \A i, j \in 1..Len(result.out.value) :
                (i < j /\ result.out.value[i].priority = None)
                    => result.out.value[j].priority = None

\* C3: with no override, on a non-empty provider set whose priorities are all
\* explicit and pairwise distinct, resolve_provider returns the provider with
\* the numerically lowest priority.
AllExplicitDistinct ==
    /\ Providers # <<>>
    /\ Explicit = 1..Len(Providers)
    /\ \A i, j \in 1..Len(Providers) :
          i # j => Providers[i].priority # Providers[j].priority
C3_LowestPriorityWins ==
    (Resolved(None) /\ AllExplicitDistinct)
        => \E i \in 1..Len(Providers) :
              /\ \A j \in 1..Len(Providers) :
                    Providers[i].priority[1] <= Providers[j].priority[1]
              /\ result.out = Ok(Providers[i].name)

\* C3 witness: the lowest priority was inserted last and was returned.
C3_Witness ==
    /\ Resolved(None) /\ AllExplicitDistinct
    /\ Len(Providers) >= 2
    /\ \A j \in 1..(Len(Providers) - 1) :
          Providers[Len(Providers)].priority[1] < Providers[j].priority[1]
    /\ result.out = Ok(Providers[Len(Providers)].name)

\* C4: for every given override x, the empty string included, resolve_provider
\* raises PolicyError if and only if x is not a key of manifest.providers, and
\* returns exactly x when it is a key.
C4_OverrideFailsIffNotAKey ==
    (result.op = "resolve_provider" /\ result.args[1] # None)
        => LET x == result.args[1][1]
           IN  /\ (result.out.kind = "PolicyError")
                      <=> (x \notin ProviderNames(manifest_file.doc))
               /\ (x \in ProviderNames(manifest_file.doc)) => result.out = Ok(x)

\* C5: on an empty provider set resolve_provider raises PolicyError for every
\* override (None, the empty string, any name) and never returns a name.
C5_EmptyProviderSetFails ==
    (result.op = "resolve_provider" /\ Providers = <<>>)
        => result.out.kind = "PolicyError"

\* C5 witness: a named override on the empty provider set was refused.
C5_Witness ==
    /\ Resolved(Some("alpha"))
    /\ Providers = <<>>
    /\ result.out.kind = "PolicyError"

----------------------------------------------------------------------------
(* Properties of the service (Spec) *)

\* A provider has a vault_key (env_var) when the field holds a name: a
\* non-empty string.
Configured(opt) == opt # None /\ opt[1] # ""

\* A secret that is empty or whitespace only.
Blank(secret) == \A i \in 1..Len(secret) : secret[i] = " "

ManifestLoaded == manifest_file.exists
Doc == manifest_file.doc
Slot(config) == <<SERVICE_NAME, config.vault_key[1]>>
AllNets == [ServiceNames -> BOOLEAN]

\* The providers whose secret lifecycle a claim follows: in the manifest, with
\* a vault_key.
Keyed == IF ManifestLoaded
         THEN {n \in ProviderNames(Doc) : Configured(ProvidersGet(Doc, n)[1].vault_key)}
         ELSE {}

\* C6: build_run_context returns injected_env = {env_var: stored secret}
\* exactly when the resolved provider has both env_var and vault_key and a
\* secret is stored under that vault_key; it raises VaultError when both are
\* set and no secret is stored; it returns an empty injected_env when the
\* provider lacks env_var or vault_key, whatever else the keyring holds.
\* injected_env never has more than one entry and its key is the resolved
\* provider's env_var.
C6_InjectedEnv ==
    (result.op = "build_run_context" /\ ManifestLoaded
        /\ resolve_provider(Doc, result.args[1]).kind = "ok")
    => LET chosen == resolve_provider(Doc, result.args[1]).value
           config == ProvidersGet(Doc, chosen)[1]
           stored == keyring[Slot(config)]
       IN  /\ IF Configured(config.env_var) /\ Configured(config.vault_key)
              THEN IF stored # None
                   THEN result.out = Ok([provider |-> chosen,
                                         injected_env |-> {<<config.env_var[1], stored[1]>>}])
                   ELSE result.out.kind = "VaultError"
              ELSE result.out = Ok([provider |-> chosen, injected_env |-> {}])
           /\ result.out.kind = "ok"
                 => /\ Cardinality(result.out.value.injected_env) <= 1
                    /\ \A item \in result.out.value.injected_env :
                          config.env_var = Some(item[1])

\* C6 witness: a secret was injected while the keyring held another entry.
C6_Witness ==
    /\ result.op = "build_run_context"
    /\ result.out.kind = "ok"
    /\ result.out.value = [provider |-> "alpha",
                           injected_env |-> {<<"E1", <<" ", "b", " ">>>>}]
    /\ keyring[<<SERVICE_NAME, "k1">>] = Some(<<" ", "b", " ">>)
    /\ keyring[<<SERVICE_NAME, "k2">>] = Some(<<"a">>)

\* What the calls on provider p return in the current state.
HasSecretListed(p, flag) ==
    \A net \in AllNets :
        LET listed == list_provider_statuses(manifest_file, keyring, net)
        IN  /\ listed.kind = "ok"
            /\ \E i \in 1..Len(listed.value) :
                  listed.value[i].name = p /\ listed.value[i].has_secret = Some(flag)
TestReturns(p, failures) ==
    \A connects \in BOOLEAN :
        LET tested == test_provider(manifest_file, keyring, p, connects)
        IN  /\ tested.kind = "ok"
            /\ tested.value.failures = failures
            /\ TestOk(tested.value) <=> (failures = <<>>)
RunInjects(p, env) ==
    \A override \in ServiceOverrides :
        resolve_provider(Doc, override) = Ok(p)
            => build_run_context(manifest_file, keyring, override)
                   = Ok([provider |-> p, injected_env |-> env])

\* C7: over any sequence of set_provider_secret / delete_provider_secret calls
\* on a provider p with vault_key and env_var and no endpoint: before any
\* successful set, and after a delete with no later set, the status list
\* reports has_secret false for p and test_provider(p) fails with exactly
\* "missing secret"; after a successful set of s with no later delete,
\* test_provider(p) is ok and a run resolving to p injects {env_var: s}, s the
\* most recently set value.
C7_SecretLifecycle ==
    \A p \in Keyed :
        LET config == ProvidersGet(Doc, p)[1]
        IN  (Configured(config.env_var) /\ config.endpoint = None)
            => /\ history[p] \in {<<"none">>, <<"deleted">>}
                    => /\ HasSecretListed(p, FALSE)
                       /\ TestReturns(p, <<"missing secret">>)
               /\ (Len(history[p]) = 2 /\ history[p][1] = "set")
                    => /\ TestReturns(p, <<>>)
                       /\ RunInjects(p, {<<config.env_var[1], history[p][2]>>})

\* C7 witness: a secret set after another one and a delete is the one injected.
C7_Witness ==
    /\ result.op = "build_run_context"
    /\ result.args = <<None>>
    /\ result.out.kind = "ok"
    /\ result.out.value = [provider |-> "alpha", injected_env |-> {<<"E1", <<"a">>>>}]
    /\ history["alpha"] = <<"set", <<"a">>>>
    /\ history["beta"] = <<"deleted">>

\* C8: set_provider_secret raises ServiceError whenever the secret is empty or
\* whitespace only, for every provider name (known or not, with or without
\* vault_key, with or without a stored secret), and then no keyring entry is
\* created or changed.
C8_BlankSecretRefused ==
    [][(result'.op = "set_provider_secret" /\ Blank(result'.args[2]))
          => /\ result'.out.kind = "ServiceError"
             /\ keyring' = keyring]_vars

\* C8 witness: a whitespace-only secret was refused for a provider that holds
\* a secret.
C8_Witness ==
    /\ result.op = "set_provider_secret"
    /\ result.args = <<"alpha", <<" ", " ">>>>
    /\ result.out.kind = "ServiceError"
    /\ "alpha" \in Keyed
    /\ keyring[Slot(ProvidersGet(Doc, "alpha")[1])] # None

\* C9: set_provider_secret (with a non-blank secret) and delete_provider_secret
\* raise ServiceError when the provider is not in the manifest or has no
\* vault_key, and then neither the keyring nor the manifest file changes; when
\* the provider exists with a vault_key the call goes to the adapter under
\* exactly that vault_key in the service's namespace.
C9_UnknownOrKeylessRefused ==
    [][(/\ ManifestLoaded
        /\ \/ result'.op = "delete_provider_secret"
           \/ (result'.op = "set_provider_secret" /\ ~Blank(result'.args[2])))
          => LET p == result'.args[1]
             IN  IF p \notin Keyed
                 THEN /\ result'.out.kind = "ServiceError"
                      /\ keyring' = keyring
                      /\ manifest_file' = manifest_file
                 ELSE LET slot == Slot(ProvidersGet(Doc, p)[1])
                      IN  /\ result'.out.kind = "ok"
                          /\ manifest_file' = manifest_file
                          /\ keyring' = [keyring EXCEPT ![slot] =
                                IF result'.op = "set_provider_secret"
                                THEN Some(result'.args[2]) ELSE None]]_vars

\* C9 witness: a set on a provider without vault_key was refused while the
\* other provider's secret stayed in the keyring.
C9_Witness ==
    /\ result.op = "set_provider_secret"
    /\ result.args = <<"beta", <<"a">>>>
    /\ result.out.kind = "ServiceError"
    /\ ManifestLoaded /\ "beta" \in ProviderNames(Doc) /\ "beta" \notin Keyed
    /\ "alpha" \in Keyed
    /\ keyring[Slot(ProvidersGet(Doc, "alpha")[1])] # None

\* C10: delete_provider_secret on a known provider with a vault_key returns
\* false and raises nothing when no secret is stored under the vault_key, and
\* true exactly when a secret existed and was removed; a delete that follows a
\* delete with no set in between returns false; after any delete has_secret of
\* the vault_key is false.
C10_DeleteReturnsWhetherExisted ==
    [][(ManifestLoaded /\ result'.op = "delete_provider_secret"
            /\ result'.args[1] \in Keyed)
          => LET p == result'.args[1]
                 slot == Slot(ProvidersGet(Doc, p)[1])
             IN  /\ result'.out = Ok(keyring[slot] # None)
                 /\ keyring'[slot] = None
                 /\ has_secret(keyring', slot[1], slot[2]) = Ok(FALSE)
                 /\ history[p] = <<"deleted">> => result'.out = Ok(FALSE)]_vars

\* C10 witness: a delete removed a stored secret and returned true.
C10_Witness ==
    /\ result.op = "delete_provider_secret"
    /\ result.args = <<"alpha">>
    /\ result.out.kind = "ok"
    /\ result.out.value = TRUE
    /\ "alpha" \in Keyed
    /\ keyring[Slot(ProvidersGet(Doc, "alpha")[1])] = None

\* The failures test_provider is to report for the two status fields.
ExpectedFailures(secret_status, endpoint_status) ==
    (IF secret_status = Some(FALSE) THEN <<"missing secret">> ELSE <<>>)
    \o (IF endpoint_status = Some(FALSE) THEN <<"endpoint unreachable">> ELSE <<>>)

\* C11: for a known provider test_provider returns has_secret None when the
\* provider has no vault_key and otherwise whether a secret is stored,
\* endpoint_reachable None when it has no endpoint and otherwise the outcome
\* of the probe, and failures exactly "missing secret" (vault_key set, nothing
\* stored) followed by "endpoint unreachable" (endpoint set, probe failed), in
\* that order and with nothing else; ok holds iff failures is empty, so a
\* provider with neither field is ok. For an unknown provider the call raises
\* ServiceError.
C11_TestProviderFailures ==
    (result.op = "test_provider" /\ ManifestLoaded)
    => LET p == result.args[1]
       IN  IF p \notin ProviderNames(Doc)
           THEN result.out.kind = "ServiceError"
           ELSE LET config == ProvidersGet(Doc, p)[1]
                    secret_status ==
                        IF Configured(config.vault_key)
                        THEN Some(keyring[Slot(config)] # None) ELSE None
                IN  /\ result.out.kind = "ok"
                    /\ result.out.value.provider = p
                    /\ result.out.value.has_secret = secret_status
                    /\ IF Configured(config.endpoint)
                       THEN result.out.value.endpoint_reachable \in {Some(TRUE), Some(FALSE)}
                       ELSE result.out.value.endpoint_reachable = None
                    /\ result.out.value.failures =
                           ExpectedFailures(secret_status,
                                            result.out.value.endpoint_reachable)
                    /\ TestOk(result.out.value) <=> (result.out.value.failures = <<>>)
                    /\ (~Configured(config.vault_key) /\ ~Configured(config.endpoint))
                          => (TestOk(result.out.value) /\ result.out.value.failures = <<>>)

\* C11 witness: both checks applied and failed, and both were reported.
C11_Witness ==
    /\ result.op = "test_provider"
    /\ result.args = <<"alpha">>
    /\ result.out.kind = "ok"
    /\ result.out.value.failures = <<"missing secret", "endpoint unreachable">>
    /\ ~TestOk(result.out.value)

\* The order of the specification: priority ascending with an absent priority
\* after every explicit one, then name.
RankedBefore(a, b) ==
    \/ (a.priority # None /\ b.priority = None)
    \/ (a.priority # None /\ b.priority # None /\ a.priority[1] < b.priority[1])
    \/ (a.priority = b.priority /\ StrLt(a.name, b.name))

\* C12: on a manifest with a non-empty provider set the first status of
\* list_provider_statuses names the provider resolve_provider returns with no
\* override (the provider build_run_context(None) resolves to), and the
\* statuses are in ascending order of (priority with absent last, name).
C12_StatusOrderMatchesPolicy ==
    (result.op = "list_provider_statuses" /\ manifest_file.exists /\ Providers # <<>>)
    => /\ result.out.kind = "ok"
       /\ resolve_provider(Doc, None) = Ok(result.out.value[1].name)
       /\ build_run_context(manifest_file, keyring, None).kind = "ok"
       /\ build_run_context(manifest_file, keyring, None).value.provider
              = result.out.value[1].name
       /\ \A i, j \in 1..Len(result.out.value) :
             i < j => RankedBefore(result.out.value[i], result.out.value[j])

\* C13: list_provider_statuses returns exactly one status per provider of the
\* manifest; has_secret is None exactly when the provider's vault_key is
\* absent and otherwise whether the keyring holds a secret under it;
\* endpoint_reachable is None exactly when the endpoint is absent and
\* otherwise the outcome of the probe. A vault_key or endpoint that is present
\* with the empty string as its value counts as present.
C13_StatusPerProvider ==
    (result.op = "list_provider_statuses" /\ ManifestLoaded)
    => /\ result.out.kind = "ok"
       /\ Len(result.out.value) = Len(Doc.providers)
       /\ \A n \in ProviderNames(Doc) :
             \E i \in 1..Len(result.out.value) :
                LET status == result.out.value[i]
                    config == ProvidersGet(Doc, n)[1]
                IN  /\ status.name = n
                    /\ status.has_secret =
                          (IF config.vault_key = None
                           THEN None
                           ELSE Some(has_secret(keyring, SERVICE_NAME,
                                                config.vault_key[1]).value))
                    /\ IF config.endpoint = None
                       THEN status.endpoint_reachable = None
                       ELSE status.endpoint_reachable \in {Some(TRUE), Some(FALSE)}

----------------------------------------------------------------------------
(* Properties of the manifest file (SpecFile) *)

\* The calls of the callers that have run to their end.
Returned(p, op) == proc[p].op = op /\ proc[p].pc = "done"
FileNotFound(out) == out.kind = "ManifestError" /\ out.value = "Manifest not found"

\* C14: a save is atomic for readers: a load_manifest that runs while other
\* callers save returns a manifest that was saved in full (the one before the
\* save or the one being saved), or reports that there is no file when none
\* has been created yet; it never raises ManifestError over an empty or
\* partly written file.
C14_SaveAtomicForReaders ==
    \A p \in Callers :
        Returned(p, "load_manifest")
        => \/ FileNotFound(proc[p].out)
           \/ /\ proc[p].out.kind = "ok"
              /\ proc[p].out.value \in SavedManifests \cup {default_manifest}

\* C15: init_manifest writes the default manifest only when there is no file:
\* under every interleaving with a save_manifest or a second init_manifest the
\* file it opens for writing is one that did not exist, and it returns True
\* only when the call created the file, so of two racing calls at most one
\* returns True.
C15_InitNeverOverwrites ==
    /\ \A p \in Callers :
          (proc[p].op = "init_manifest" /\ proc[p].pc = "write") => proc[p].created
    /\ \A p \in Callers :
          (Returned(p, "init_manifest") /\ proc[p].out.value) => proc[p].created
    /\ Cardinality({p \in Callers :
                      Returned(p, "init_manifest") /\ proc[p].out.value}) <= 1

\* C16: when concurrent save_manifest calls have all returned, the file on
\* disk loads and is exactly the manifest of one of them, never a mixture of
\* their texts and never a text that does not parse.
C16_ConcurrentSavesLeaveOne ==
    (\A p \in Callers : Returned(p, "save_manifest"))
    => /\ disk.exists
       /\ \E p \in Callers :
             /\ read_and_validate(disk).kind = "ok"
             /\ read_and_validate(disk).value = proc[p].arg[1]

----------------------------------------------------------------------------
(* Properties of the manifest file under one caller (SpecSequential) *)

\* C17: a load_manifest that follows a save_manifest(m) with no write in
\* between returns a manifest equal to m: the same version and identity, the
\* same providers in the same order, every optional field as it was, absent
\* ones included.  The manifest returned is the one of the most recent write
\* that ran to its end, never an older one.
C17_SaveLoadRoundTrip ==
    (Returned(1, "load_manifest") /\ disk.written # None)
    => /\ proc[1].out.kind = "ok"
       /\ proc[1].out.value = disk.written[1]

\* C17 witness: a load returned the manifest last saved, one whose providers
\* are not in name order and whose optional fields are absent or empty.
C17_Witness ==
    /\ Returned(1, "load_manifest")
    /\ proc[1].out.kind = "ok"
    /\ proc[1].out.value =
          Manifest("2", Some("node"),
                   <<ProviderConfig("beta", None, None, "local", None, Some(7)),
                     ProviderConfig("alpha", Some(""), None, "upstream", None, Some(-1))>>)
    /\ disk.written = Some(proc[1].out.value)
    /\ disk.text = model_dump_json(proc[1].out.value)

\* C20: load_manifest returns a fully valid Manifest or raises ManifestError,
\* nothing else: ManifestError when the file is missing, when its text is not
\* well-formed JSON, and when the JSON lacks a required field, has an empty
\* version or a provider type outside the enumeration; never a partly built
\* model, never another kind of error for a bad file; and it leaves the file
\* as it was.
C20_LoadValidOrManifestError ==
    [][(proc'[1].op = "load_manifest" /\ proc'[1].pc = "done" /\ proc[1].pc # "done")
          => /\ disk' = disk
             /\ proc'[1].out.kind \in {"ok", "ManifestError"}
             /\ proc'[1].out.kind = "ok" => Valid(proc'[1].out.value)
             /\ (~disk.exists \/ disk.text \in BadTexts)
                    => proc'[1].out.kind = "ManifestError"]_vars

----------------------------------------------------------------------------
(* Properties of the keyring adapter (SpecVault) *)

\* C18: get_secret raises VaultError only when the keyring holds no entry
\* under the key, or the backend fails; an entry whose value is the empty
\* string is an entry, and get_secret returns the empty string for it.
C18_GetFailsOnlyWhenNoEntry ==
    [][(result'.op = "get_secret" /\ backend' = backend)
          => LET stored == keyring[<<result'.args[1], result'.args[2]>>]
             IN  IF stored = None \/ backend = "KeyringError"
                 THEN result'.out.kind = "VaultError"
                 ELSE /\ result'.out.kind = "ok"
                      /\ result'.out.value = stored[1]]_vars

\* The keyring entry a call of the adapter or of the service works on, and
\* whether the backend malfunctions on that call.
CallSlot(call) ==
    IF call.op \in {"set_secret", "get_secret", "has_secret", "delete_secret"}
    THEN <<call.args[1], call.args[2]>>
    ELSE Slot(ProvidersGet(Doc, call.args[1])[1])
CallDeletes(call) == call.op \in {"delete_secret", "delete_provider_secret"}
Malfunction(call) ==
    \/ backend = "KeyringError"
    \/ (backend = "PasswordDeleteError" /\ CallDeletes(call)
          /\ keyring[CallSlot(call)] # None)

\* C19: a malfunction of the backend is never reported as a plain False:
\* has_secret and delete_secret (and delete_provider_secret, test_provider
\* and list_provider_statuses, which pass their answer on) report False only
\* when the keyring holds no entry under the key, and every malfunction
\* during has, get, set or delete surfaces as VaultError, also through
\* list_provider_statuses, test_provider, set_provider_secret,
\* delete_provider_secret and build_run_context.
C19_MalfunctionNeverPlainFalse ==
    [][(backend' = backend /\ result' # result)
          => /\ (/\ result'.op \in {"has_secret", "delete_secret", "delete_provider_secret"}
                 /\ result'.out.kind = "ok"
                 /\ result'.out.value = FALSE)
                    => keyring[CallSlot(result')] = None
             /\ (/\ result'.op = "test_provider"
                 /\ result'.out.kind = "ok"
                 /\ result'.out.value.has_secret = Some(FALSE))
                    => keyring[CallSlot(result')] = None
             /\ (/\ result'.op \in {"set_secret", "get_secret", "has_secret",
                                    "delete_secret", "set_provider_secret",
                                    "delete_provider_secret", "test_provider"}
                 /\ Malfunction(result'))
                    => result'.out.kind = "VaultError"
             /\ (result'.op = "list_provider_statuses" /\ backend = "KeyringError")
                    => result'.out.kind = "VaultError"
             /\ (/\ result'.op = "build_run_context"
                 /\ result'.args[1] = None
                 /\ backend = "KeyringError")
                    => result'.out.kind = "VaultError"]_vars

----------------------------------------------------------------------------
(* Properties of the HTTP API (SpecApi) *)

MutatingRoutes ==
    {"POST /providers/{provider}/secret", "DELETE /providers/{provider}/secret",
     "PUT /manifest"}

\* C21: every mutating route answers 401 to a request whose
\* X-Agent-Vault-Token header is missing or differs from the token of the app,
\* and then the keyring and the manifest file are as they were; with the
\* token the request reaches the service, and after a 200 to a POST of a
\* secret the keyring holds the submitted value under the provider's
\* vault_key.
C21_MutatingRoutesRequireToken ==
    [][(result'.op \in MutatingRoutes /\ result' # result)
          => IF result'.args[1] # Some(AuthToken)
             THEN /\ result'.out.value = 401
                  /\ keyring' = keyring
                  /\ manifest_file' = manifest_file
             ELSE /\ result'.out.value # 401
                  /\ (result'.op = "POST /providers/{provider}/secret"
                         /\ result'.out.value = 200)
                        => keyring'[Slot(ProvidersGet(Doc, result'.args[2])[1])]
                              = result'.args[3]]_vars

----------------------------------------------------------------------------
(* Frame of the secret calls (Spec) *)

\* What the service reports for provider q over keyring kr: has_secret of
\* test_provider and of the status list, and the outcome of a run on q.
ReportedFor(kr, q) ==
    LET listed == list_provider_statuses(manifest_file, kr, [n \in ServiceNames |-> TRUE])
    IN  <<test_provider(manifest_file, kr, q, TRUE).value.has_secret,
          {listed.value[i].has_secret :
              i \in {j \in 1..Len(listed.value) : listed.value[j].name = q}},
          build_run_context(manifest_file, kr, Some(q))>>

\* C22: a set_provider_secret or delete_provider_secret on provider p that
\* succeeds leaves what is reported for every other provider q of the
\* manifest as it was: has_secret of test_provider(q) and of the status list,
\* and the secret build_run_context injects for q; also when p and q have the
\* same vault_key.
C22_SecretCallsFrame ==
    [][(/\ result'.op \in {"set_provider_secret", "delete_provider_secret"}
        /\ result'.out.kind = "ok")
          => \A q \in ProviderNames(Doc) \ {result'.args[1]} :
                ReportedFor(keyring', q) = ReportedFor(keyring, q)]_vars

----------------------------------------------------------------------------
(* Properties of the service calls under a concurrent save (SpecSnapshot) *)

\* The configuration of provider n in manifest s, None when s has no such
\* provider or the provider no vault_key.
KeyedIn(s, n) ==
    IF ProvidersGet(s, n) # None /\ Configured(ProvidersGet(s, n)[1].vault_key)
    THEN ProvidersGet(s, n) ELSE None

\* C23: every service call works on the one manifest it loaded at its start,
\* whatever is saved meanwhile.  build_run_context returns a provider of that
\* manifest and an injected_env made of that provider's env_var and of the
\* secret under that provider's vault_key, and never fails on the lookup of
\* the resolved name; set_provider_secret, delete_provider_secret and
\* test_provider act on the vault_key the provider has in that manifest.
C23_OneSnapshotPerCall ==
    [][(proc[1].pc = "work" /\ proc'[1].pc = "done")
          => LET loaded == proc[1].snapshot[1]
                 args == proc[1].arg[1]
                 out == proc'[1].out
             IN  CASE proc[1].op = "build_run_context" ->
                        /\ out.kind \in {"ok", "PolicyError", "VaultError"}
                        /\ out.kind = "ok"
                             => /\ out.value.provider \in ProviderNames(loaded)
                                /\ resolve_provider(loaded, args[1]) = Ok(out.value.provider)
                                /\ LET config == ProvidersGet(loaded, out.value.provider)[1]
                                   IN  out.value.injected_env =
                                          {<<config.env_var[1], keyring[Slot(config)][1]>>}
                   [] proc[1].op = "set_provider_secret" ->
                        IF KeyedIn(loaded, args[1]) = None
                        THEN out.kind = "ServiceError" /\ keyring' = keyring
                        ELSE /\ out.kind = "ok"
                             /\ keyring' = [keyring EXCEPT
                                   ![Slot(KeyedIn(loaded, args[1])[1])] = Some(args[2])]
                   [] proc[1].op = "delete_provider_secret" ->
                        IF KeyedIn(loaded, args[1]) = None
                        THEN out.kind = "ServiceError" /\ keyring' = keyring
                        ELSE /\ out.kind = "ok"
                             /\ out.value = (keyring[Slot(KeyedIn(loaded, args[1])[1])] # None)
                             /\ keyring' = [keyring EXCEPT
                                   ![Slot(KeyedIn(loaded, args[1])[1])] = None]
                   [] proc[1].op = "test_provider" ->
                        IF ProvidersGet(loaded, args[1]) = None
                        THEN out.kind = "ServiceError"
                        ELSE /\ out.kind = "ok"
                             /\ out.value.has_secret =
                                   IF KeyedIn(loaded, args[1]) = None THEN None
                                   ELSE Some(keyring[Slot(KeyedIn(loaded, args[1])[1])] # None)]_vars

\* C23 witness: a run resolved beta and injected beta's secret from the
\* manifest it had loaded, while the file on disk no longer holds beta.
C23_Witness ==
    /\ proc[1].op = "build_run_context" /\ proc[1].pc = "done"
    /\ proc[1].arg = Some(<<None>>)
    /\ proc[1].out.kind = "ok"
    /\ proc[1].out.value = [provider |-> "beta", injected_env |-> {<<"E2", <<"b">>>>}]
    /\ manifest_file.exists
    /\ "beta" \notin ProviderNames(manifest_file.doc)

====
